---- MODULE Spec2Model ----
(***************************************************************************)
(* A model of import_data_from_github_to_sql.py: the download pipeline     *)
(* with its two retry layers (the mounted urllib3 Retry adapter and the    *)
(* loop of download_with_retry), the decoder fallback, the bookkeeping of  *)
(* main, the bronze transformation of one dataset (metadata, preprocess,   *)
(* type plan) and the type inference of one column.                        *)
(*                                                                         *)
(*   Spec       main(): download loop, setup, load loop, summary           *)
(*   SpecBronze the body of main's load loop on two datasets in sequence   *)
(*   SpecInfer  get_sql_data_type_with_metadata on one column              *)
(***************************************************************************)
EXTENDS Integers, Sequences, FiniteSets, TLC

VARIABLES
    \* ---- main() ----
    pc,                 \* position of main
    i,                  \* index in data_urls of the url of the download loop
    datasets,           \* list of the downloaded sources: urls, with their dataframes in SpecBronze
    failed_downloads,   \* list of the urls whose download failed
    fetchLog,           \* urls download_parquet_file was called with, in order
    \* ---- download_parquet_file / download_with_retry, current fetch ----
    attempt,            \* loop variable of download_with_retry
    adapterRetries,     \* retries the mounted Retry has used in this session.get
    getCalls,           \* calls of session.get in this fetch
    httpRequests,       \* HTTP requests sent in this fetch
    sleeps,             \* delays passed to time.sleep in this fetch, in order
    seen,               \* HTTP statuses received in this fetch
    netErrors,          \* number of requests of this fetch that ended in a network error
    dwrCalls,           \* calls of download_with_retry in this fetch
    decodeTried,        \* the calls of pd.read_parquet: engine and whether it decoded, in order
    reqAtDecode,        \* httpRequests when the response was returned
    fetchOk,            \* the success flag download_parquet_file returns
    \* ---- setup and load loop ----
    setupOk,            \* "none", "ok", "failed": result of setup_database
    engineOk,           \* "none", "ok", "failed": result of create_engine
    k,                  \* index in datasets of the load loop
    successful_imports,
    failed_imports,
    loadLog,            \* sources whose load was attempted, in order
    exitCode,           \* -1 while running, then the process exit code
    summary,            \* TRUE once the final summary is printed
    \* ---- body of the load loop on a concrete dataframe (SpecBronze) ----
    tpc,                \* position in the body of the load loop
    clock,              \* the wall clock pd.Timestamp.now reads
    df_with_metadata,
    df_processed,
    dtype_mapping,
    handed,             \* what to_sql was last called with: df and dtype, or <<>>
    tdone,              \* the calls of add_bronze_metadata: df, url, time and result
    \* ---- type inference of one column (SpecInfer) ----
    ipc,
    icol,               \* the column: name, dtype, data
    isql                \* the inferred SQL type

mainVars == <<pc, i, datasets, failed_downloads, fetchLog, attempt, adapterRetries,
              getCalls, httpRequests, sleeps, seen, netErrors, dwrCalls, decodeTried,
              reqAtDecode, fetchOk, setupOk, engineOk, k, successful_imports,
              failed_imports, loadLog, exitCode, summary>>
bronzeVars == <<tpc, clock, df_with_metadata, df_processed, dtype_mapping,
                handed, tdone>>
inferVars == <<ipc, icol, isql>>
vars == <<mainVars, bronzeVars, inferVars>>

(***************************************************************************)
(* Bounds of the model.                                                    *)
(***************************************************************************)
\* number of urls main enumerates (34 in the program)
NumUrls == 3
\* rows of a dataframe of SpecBronze
NumRows == 2
\* largest number of rows of the column of SpecInfer
MaxRows == 2

(***************************************************************************)
(* Program constants.                                                      *)
(***************************************************************************)
max_retries == 3
initial_delay == 5
status_forcelist == {429, 500, 502, 503, 504}
\* engines of download_parquet_file, in the order of the for loop
engines == <<"None", "pyarrow", "fastparquet">>
\* exceptions the except clause of download_with_retry names
CaughtExceptions == {"ConnectTimeout", "ConnectionError", "ReadTimeout", "HTTPError"}

\* the urls main enumerates, in order (line 239-256); a url is its index
data_urls == [j \in 1..NumUrls |-> j]

\* statuses a request may be answered with
Statuses == {200, 404, 429, 503}

(***************************************************************************)
(* session.get(url) through the mounted HTTPAdapter(max_retries=Retry(     *)
(* total=max_retries, status_forcelist=...)), followed by                  *)
(* response.raise_for_status().  A response whose status is in             *)
(* status_forcelist is retried by the adapter itself while its budget      *)
(* lasts; with the budget used up the adapter raises                       *)
(* requests.exceptions.RetryError (raise_on_status is left at its default).*)
(* Any other response is returned, and raise_for_status raises HTTPError   *)
(* for a status of 400 and above.                                          *)
(***************************************************************************)
SessionGetOnStatus(status, used) ==
    IF status \in status_forcelist
    THEN IF used < max_retries THEN "retry" ELSE "RetryError"
    ELSE IF status >= 400 THEN "HTTPError" ELSE "return"

\* A network error (connect timeout, connection error, read timeout) is
\* retried by the adapter as well; with the budget used up it is raised as
\* requests.exceptions.ConnectionError.
SessionGetOnNetworkError(used) ==
    IF used < max_retries THEN "retry" ELSE "ConnectionError"

\* The except clause of download_with_retry and its body.
OnException(exc, att) ==
    IF exc \in CaughtExceptions
    THEN IF att < max_retries - 1 THEN "sleep" ELSE "raise"
    ELSE "raise"

\* What one answered request does to the fetch: result is "retry" (the
\* adapter sends again), "return" (download_with_retry returns the
\* response), "sleep" (the loop sleeps and calls session.get again) or
\* "raise" (the exception leaves download_with_retry).
AfterRequest(outcome, att) ==
    IF outcome \in {"retry", "return"} THEN outcome ELSE OnException(outcome, att)

mainUnchangedByFetch == <<i, datasets, failed_downloads, setupOk, engineOk, k,
                          successful_imports, failed_imports, loadLog, exitCode, summary>>

\* main, line 263-266: the next url is handed to download_parquet_file, which
\* calls download_with_retry, which enters its loop and calls session.get.
StartFetch ==
    /\ pc = "download"
    /\ i <= NumUrls
    /\ pc' = "get"
    /\ fetchLog' = Append(fetchLog, data_urls[i])
    /\ attempt' = 0
    /\ adapterRetries' = 0
    /\ getCalls' = 1
    /\ httpRequests' = 0
    /\ sleeps' = <<>>
    /\ seen' = {}
    /\ netErrors' = 0
    /\ dwrCalls' = 1
    /\ decodeTried' = <<>>
    /\ reqAtDecode' = 0
    /\ fetchOk' = FALSE
    /\ UNCHANGED <<mainUnchangedByFetch, bronzeVars, inferVars>>

\* The effect of one request, answered with `outcome` of session.get.
Request(outcome) ==
    LET r == AfterRequest(outcome, attempt) IN
    /\ httpRequests' = httpRequests + 1
    /\ CASE r = "retry" ->
              /\ adapterRetries' = adapterRetries + 1
              /\ UNCHANGED <<pc, attempt, getCalls, sleeps, reqAtDecode, fetchOk>>
         [] r = "return" ->
              /\ pc' = "decode"
              /\ reqAtDecode' = httpRequests + 1
              /\ UNCHANGED <<attempt, adapterRetries, getCalls, sleeps, fetchOk>>
         [] r = "sleep" ->
              /\ sleeps' = Append(sleeps, initial_delay * (2 ^ attempt))
              /\ attempt' = attempt + 1
              /\ adapterRetries' = 0
              /\ getCalls' = getCalls + 1
              /\ UNCHANGED <<pc, reqAtDecode, fetchOk>>
         [] r = "raise" ->
              \* caught by the except Exception of download_parquet_file
              /\ pc' = "fetched"
              /\ fetchOk' = FALSE
              /\ UNCHANGED <<attempt, adapterRetries, getCalls, sleeps, reqAtDecode>>
    /\ UNCHANGED <<fetchLog, dwrCalls, decodeTried>>
    /\ UNCHANGED <<mainUnchangedByFetch, bronzeVars, inferVars>>

HttpResponse ==
    /\ pc = "get"
    /\ \E status \in Statuses :
          /\ seen' = seen \cup {status}
          /\ UNCHANGED netErrors
          /\ Request(SessionGetOnStatus(status, adapterRetries))

NetworkError ==
    /\ pc = "get"
    /\ netErrors' = netErrors + 1
    /\ UNCHANGED seen
    /\ Request(SessionGetOnNetworkError(adapterRetries))

\* A decoder failure that downloads again before the next engine is tried.
DecodeRefetching ==
    /\ pc = "decode"
    /\ LET n == Len(decodeTried) + 1 IN
       \E ok \in BOOLEAN :
          /\ decodeTried' = Append(decodeTried, [engine |-> engines[n], ok |-> ok])
          /\ IF ok
             THEN pc' = "fetched" /\ fetchOk' = TRUE /\ UNCHANGED <<dwrCalls, getCalls>>
             ELSE IF n < Len(engines)
                  THEN /\ pc' = "get"
                       /\ dwrCalls' = dwrCalls + 1
                       /\ getCalls' = getCalls + 1
                       /\ UNCHANGED fetchOk
                  ELSE pc' = "fetched" /\ fetchOk' = FALSE /\ UNCHANGED <<dwrCalls, getCalls>>
    /\ UNCHANGED <<fetchLog, attempt, adapterRetries, httpRequests, sleeps,
                   seen, netErrors, reqAtDecode>>
    /\ UNCHANGED <<mainUnchangedByFetch, bronzeVars, inferVars>>

\* download_parquet_file, line 179-185: pd.read_parquet on response.content
\* with the next engine; a failure goes on to the next engine on the same
\* bytes and, after the last one, to the return of (None, False).
Decode ==
    /\ pc = "decode"
    /\ LET n == Len(decodeTried) + 1 IN
       \E ok \in BOOLEAN :
          /\ decodeTried' = Append(decodeTried, [engine |-> engines[n], ok |-> ok])
          /\ IF ok
             THEN pc' = "fetched" /\ fetchOk' = TRUE
             ELSE IF n < Len(engines)
                  THEN UNCHANGED <<pc, fetchOk>>
                  ELSE pc' = "fetched" /\ fetchOk' = FALSE
    /\ UNCHANGED <<fetchLog, attempt, adapterRetries, getCalls, httpRequests, sleeps,
                   seen, netErrors, dwrCalls, reqAtDecode>>
    /\ UNCHANGED <<mainUnchangedByFetch, bronzeVars, inferVars>>

fetchVars == <<attempt, adapterRetries, getCalls, httpRequests, sleeps, seen, netErrors,
               dwrCalls, decodeTried, reqAtDecode, fetchOk>>

\* main, line 268-279: the result of the fetch is recorded; the locals of the
\* finished calls are gone.
RecordFetch ==
    /\ pc = "fetched"
    /\ IF fetchOk
       THEN /\ datasets' = Append(datasets, data_urls[i])
            /\ UNCHANGED failed_downloads
       ELSE /\ failed_downloads' = Append(failed_downloads, data_urls[i])
            /\ UNCHANGED datasets
    /\ i' = i + 1
    /\ pc' = "download"
    /\ attempt' = 0 /\ adapterRetries' = 0 /\ getCalls' = 0 /\ httpRequests' = 0
    /\ sleeps' = <<>> /\ seen' = {} /\ netErrors' = 0 /\ dwrCalls' = 0
    /\ decodeTried' = <<>> /\ reqAtDecode' = 0 /\ fetchOk' = FALSE
    /\ UNCHANGED <<fetchLog, setupOk, engineOk, k, successful_imports,
                   failed_imports, loadLog, exitCode, summary>>
    /\ UNCHANGED <<bronzeVars, inferVars>>

\* The check of line 281 left out: the run goes on with no dataset.
CheckDatasetsNoExit ==
    /\ pc = "download"
    /\ i > NumUrls
    /\ pc' = "setup"
    /\ UNCHANGED <<i, datasets, failed_downloads, fetchLog, fetchVars, setupOk, engineOk,
                   k, successful_imports, failed_imports, loadLog, exitCode, summary>>
    /\ UNCHANGED <<bronzeVars, inferVars>>

\* main, line 281-283
CheckDatasets ==
    /\ pc = "download"
    /\ i > NumUrls
    /\ IF datasets = <<>>
       THEN pc' = "exit" /\ exitCode' = 1
       ELSE pc' = "setup" /\ UNCHANGED exitCode
    /\ UNCHANGED <<i, datasets, failed_downloads, fetchLog, fetchVars, setupOk, engineOk,
                   k, successful_imports, failed_imports, loadLog, summary>>
    /\ UNCHANGED <<bronzeVars, inferVars>>

\* main, line 292-293, with setup_database (line 194-230): True, or False
\* on any exception of the connection or the DDL.
SetupDatabase ==
    /\ pc = "setup"
    /\ \E ok \in BOOLEAN :
          IF ok
          THEN setupOk' = "ok" /\ pc' = "engine" /\ UNCHANGED exitCode
          ELSE setupOk' = "failed" /\ pc' = "exit" /\ exitCode' = 1
    /\ UNCHANGED <<i, datasets, failed_downloads, fetchLog, fetchVars, engineOk,
                   k, successful_imports, failed_imports, loadLog, summary>>
    /\ UNCHANGED <<bronzeVars, inferVars>>

\* main, line 296-306
CreateEngine ==
    /\ pc = "engine"
    /\ \E ok \in BOOLEAN :
          IF ok
          THEN engineOk' = "ok" /\ pc' = "load" /\ UNCHANGED exitCode
          ELSE engineOk' = "failed" /\ pc' = "exit" /\ exitCode' = 1
    /\ UNCHANGED <<i, datasets, failed_downloads, fetchLog, fetchVars, setupOk,
                   k, successful_imports, failed_imports, loadLog, summary>>
    /\ UNCHANGED <<bronzeVars, inferVars>>

\* A load loop whose except clause ends the run.
LoadTableAborting ==
    /\ pc = "load"
    /\ k <= Len(datasets)
    /\ loadLog' = Append(loadLog, datasets[k])
    /\ \E ok \in BOOLEAN :
          IF ok
          THEN /\ successful_imports' = successful_imports + 1
               /\ k' = k + 1
               /\ UNCHANGED <<failed_imports, pc, exitCode>>
          ELSE /\ failed_imports' = Append(failed_imports, datasets[k])
               /\ pc' = "exit"
               /\ exitCode' = 1
               /\ UNCHANGED <<successful_imports, k>>
    /\ UNCHANGED <<i, datasets, failed_downloads, fetchLog, fetchVars, setupOk, engineOk,
                   summary>>
    /\ UNCHANGED <<bronzeVars, inferVars>>

\* main, line 309-352: one iteration of the load loop; the body either
\* reaches the end of the try block or raises into the except clause, and
\* the loop goes on to the next dataset either way.
LoadTable ==
    /\ pc = "load"
    /\ k <= Len(datasets)
    /\ loadLog' = Append(loadLog, datasets[k])
    /\ \E ok \in BOOLEAN :
          IF ok
          THEN /\ successful_imports' = successful_imports + 1
               /\ UNCHANGED failed_imports
          ELSE /\ failed_imports' = Append(failed_imports, datasets[k])
               /\ UNCHANGED successful_imports
    /\ k' = k + 1
    /\ UNCHANGED <<pc, exitCode>>
    /\ UNCHANGED <<i, datasets, failed_downloads, fetchLog, fetchVars, setupOk, engineOk,
                   summary>>
    /\ UNCHANGED <<bronzeVars, inferVars>>

\* main, line 354-380
PrintSummary ==
    /\ pc = "load"
    /\ k > Len(datasets)
    /\ summary' = TRUE
    /\ exitCode' = 0
    /\ pc' = "done"
    /\ UNCHANGED <<i, datasets, failed_downloads, fetchLog, fetchVars, setupOk, engineOk,
                   k, successful_imports, failed_imports, loadLog>>
    /\ UNCHANGED <<bronzeVars, inferVars>>

(***************************************************************************)
(* The specification of main.                                              *)
(***************************************************************************)
BronzeIdle ==
    /\ tpc = "idle" /\ clock = 0
    /\ df_with_metadata = <<>> /\ df_processed = <<>> /\ dtype_mapping = <<>>
    /\ handed = <<>> /\ tdone = <<>>

InferIdle == ipc = "idle" /\ icol = <<>> /\ isql = <<>>

MainIdle ==
    /\ pc = "idle" /\ i = 0 /\ datasets = <<>> /\ failed_downloads = <<>>
    /\ fetchLog = <<>> /\ attempt = 0 /\ adapterRetries = 0 /\ getCalls = 0
    /\ httpRequests = 0 /\ sleeps = <<>> /\ seen = {} /\ netErrors = 0
    /\ dwrCalls = 0 /\ decodeTried = <<>> /\ reqAtDecode = 0 /\ fetchOk = FALSE
    /\ setupOk = "none" /\ engineOk = "none" /\ k = 0 /\ successful_imports = 0
    /\ failed_imports = <<>> /\ loadLog = <<>> /\ exitCode = -1 /\ summary = FALSE

\* main, line 236-261 and 306-307: the lists and counters as they are created
Init ==
    /\ pc = "download" /\ i = 1 /\ datasets = <<>> /\ failed_downloads = <<>>
    /\ fetchLog = <<>> /\ attempt = 0 /\ adapterRetries = 0 /\ getCalls = 0
    /\ httpRequests = 0 /\ sleeps = <<>> /\ seen = {} /\ netErrors = 0
    /\ dwrCalls = 0 /\ decodeTried = <<>> /\ reqAtDecode = 0 /\ fetchOk = FALSE
    /\ setupOk = "none" /\ engineOk = "none" /\ k = 1 /\ successful_imports = 0
    /\ failed_imports = <<>> /\ loadLog = <<>> /\ exitCode = -1 /\ summary = FALSE
    /\ BronzeIdle
    /\ InferIdle

Next ==
    \/ StartFetch
    \/ HttpResponse
    \/ NetworkError
    \/ Decode
    \/ RecordFetch
    \/ CheckDatasets
    \/ SetupDatabase
    \/ CreateEngine
    \/ LoadTable
    \/ PrintSummary

Spec == Init /\ [][Next]_vars

(***************************************************************************)
(* Claims about the fetch and about main, checked under Spec.              *)
(***************************************************************************)
Terminated == pc \in {"done", "exit"}

\* the fetch in progress has received nothing but non-transient error statuses
OnlyTerminalStatuses ==
    /\ seen # {}
    /\ \A st \in seen : st >= 400 /\ st \notin status_forcelist
    /\ netErrors = 0

\* the fetch in progress has received nothing but transient statuses
OnlyTransientStatuses ==
    /\ seen # {}
    /\ seen \subseteq status_forcelist
    /\ netErrors = 0

\* C1: when a GET ends in a non-transient HTTP error status, the fetch fails
\* at once: one attempt, no backoff sleep, and the Download Failure is
\* reported without any further attempt.
C1_NonTransientFailsImmediately ==
    OnlyTerminalStatuses =>
        /\ pc = "fetched"
        /\ ~fetchOk
        /\ getCalls = 1
        /\ httpRequests = 1
        /\ sleeps = <<>>

\* the delays initial_delay * 2^attempt for attempt = 0 .. max_retries - 2
BackoffDelays == [a \in 1..(max_retries - 1) |-> initial_delay * (2 ^ (a - 1))]

\* C2: a fetch that met nothing but transient statuses ends after exactly
\* max_retries attempts, with the sleeps initial_delay * 2^attempt between
\* them and none after the last, and returns (None, False).
C2_TransientRetryCount ==
    (pc = "fetched" /\ OnlyTransientStatuses) =>
        /\ getCalls = max_retries
        /\ sleeps = BackoffDelays
        /\ ~fetchOk

\* every source is fetched once in enumeration order, loads are attempted
\* once each in the order of datasets, and only after the last fetch
OrderOfWork ==
    /\ Len(fetchLog) <= NumUrls
    /\ \A j \in 1..Len(fetchLog) : fetchLog[j] = data_urls[j]
    /\ Len(loadLog) <= Len(datasets)
    /\ \A j \in 1..Len(loadLog) : loadLog[j] = datasets[j]
    /\ loadLog # <<>> => (Len(fetchLog) = NumUrls /\ pc \in {"load", "done"})

RunComplete ==
    /\ pc = "done"
    /\ Len(fetchLog) = NumUrls
    /\ loadLog = datasets
    /\ Len(datasets) + Len(failed_downloads) = NumUrls
    /\ successful_imports + Len(failed_imports) = Len(datasets)

\* C3 (as claimed): download and load failures never abort the run: whenever
\* at least one fetch succeeded and setup_database succeeded, every source is
\* fetched once in order, every downloaded dataset is loaded once in order,
\* and the final counts add up.
C3_FailuresNeverAbort ==
    /\ OrderOfWork
    /\ (Terminated /\ datasets # <<>> /\ setupOk = "ok") => RunComplete

\* C3 (amended): the same, for the runs in which the creation of the
\* SQLAlchemy engine succeeds as well.
C3_FailuresNeverAbortGivenEngine ==
    /\ OrderOfWork
    /\ (Terminated /\ datasets # <<>> /\ setupOk = "ok" /\ engineOk = "ok") => RunComplete

\* a finished run with a failed download, a failed load and a successful load
C3_Witness ==
    /\ pc = "done"
    /\ failed_downloads # <<>>
    /\ failed_imports # <<>>
    /\ successful_imports > 0

\* C4 (as claimed): the run ends early (exit code 1, no summary, no load
\* attempted) exactly when no dataset was downloaded or setup_database
\* failed; every other run attempts all loads and reaches the summary.
C4_OnlyTwoEarlyExits ==
    /\ pc = "exit" =>
          /\ datasets = <<>> \/ setupOk = "failed"
          /\ exitCode = 1 /\ ~summary /\ loadLog = <<>>
    /\ pc = "done" =>
          /\ datasets # <<>> /\ setupOk = "ok"
          /\ exitCode = 0 /\ summary /\ loadLog = datasets
    /\ ~Terminated => ENABLED Next

\* C4 (amended): the run ends early in exactly three situations: no dataset
\* was downloaded, setup_database failed, or create_engine failed; each exit
\* comes before any load, and every other run attempts all loads and
\* reaches the summary.
C4_ThreeEarlyExits ==
    /\ pc = "exit" =>
          /\ datasets = <<>> \/ setupOk = "failed" \/ engineOk = "failed"
          /\ exitCode = 1 /\ ~summary /\ loadLog = <<>>
    /\ pc = "done" =>
          /\ datasets # <<>> /\ setupOk = "ok" /\ engineOk = "ok"
          /\ exitCode = 0 /\ summary /\ loadLog = datasets
    /\ ~Terminated => ENABLED Next

\* an early exit after a download succeeded
C4_Witness ==
    /\ pc = "exit"
    /\ datasets # <<>>
    /\ exitCode = 1

\* C10: the decoders are tried in their fixed order on the bytes in hand
\* until the first success; no decoder failure causes another transfer
\* (download_with_retry is called once per fetch); the fetch succeeds iff a
\* decoder succeeds, and fails when all of them fail.
C10_DecodersOnBytesInHand ==
    /\ pc \in {"get", "decode", "fetched"} => dwrCalls = 1
    /\ Len(decodeTried) <= Len(engines)
    /\ \A j \in 1..Len(decodeTried) :
          /\ decodeTried[j].engine = engines[j]
          /\ j < Len(decodeTried) => ~decodeTried[j].ok
    /\ decodeTried # <<>> => (reqAtDecode > 0 /\ httpRequests = reqAtDecode)
    /\ pc = "decode" => \A j \in 1..Len(decodeTried) : ~decodeTried[j].ok
    /\ pc = "fetched" =>
          /\ fetchOk <=> (\E j \in 1..Len(decodeTried) : decodeTried[j].ok)
          /\ (reqAtDecode > 0 /\ ~fetchOk) => Len(decodeTried) = Len(engines)

\* a fetch that succeeded with a later engine after an earlier one failed
C10_Witness ==
    /\ pc = "fetched"
    /\ fetchOk
    /\ Len(decodeTried) > 1

(***************************************************************************)
(* Strings.  A Python string is modelled as the sequence of its            *)
(* characters, so that `in` is a substring test and lower() a map.         *)
(***************************************************************************)
Alphabet ==
    <<"a", "b", "c", "d", "e", "f", "g", "h", "i", "j", "k", "l", "m", "n", "o", "p", "q", "r", "s", "t", "u", "v", "w", "x", "y", "z", "_">> \o
    <<"A", "B", "C", "D", "E", "F", "G", "H", "I", "J", "K", "L", "M", "N", "O", "P", "Q", "R", "S", "T", "U", "V", "W", "X", "Y", "Z">> \o
    <<"0", "1", "2", "3", "4", "5", "6", "7", "8", "9", "[", "]", ",", " ">>

Ord(c) == CHOOSE j \in 1..Len(Alphabet) : Alphabet[j] = c

\* str.lower(): the upper-case letters are Alphabet[28..53]
LowerChar(c) == IF Ord(c) \in 28..53 THEN Alphabet[Ord(c) - 27] ELSE c
Lower(str) == [j \in 1..Len(str) |-> LowerChar(str[j])]

\* `sub in str`
Contains(str, sub) ==
    \E j \in 0..(Len(str) - Len(sub)) :
        \A m \in 1..Len(sub) : str[j + m] = sub[m]

\* any(keyword in str for keyword in keywords)
AnyKeyword(str, keywords) == \E kw \in keywords : Contains(str, kw)

kw_amount == <<"a", "m", "o", "u", "n", "t">>
kw_balance == <<"b", "a", "l", "a", "n", "c", "e">>
kw_price == <<"p", "r", "i", "c", "e">>
kw_value == <<"v", "a", "l", "u", "e">>
kw_address == <<"a", "d", "d", "r", "e", "s", "s">>
kw_location == <<"l", "o", "c", "a", "t", "i", "o", "n">>
kw_date == <<"d", "a", "t", "e">>
kw_time == <<"t", "i", "m", "e">>
kw_id == <<"i", "d">>
kw_num == <<"n", "u", "m">>
kw_no == <<"n", "o">>
kw_code == <<"c", "o", "d", "e">>
kw_int == <<"i", "n", "t">>
kw_float == <<"f", "l", "o", "a", "t">>
kw_bool == <<"b", "o", "o", "l">>
kw_datetime == <<"d", "a", "t", "e", "t", "i", "m", "e">>
kw_object == <<"o", "b", "j", "e", "c", "t">>
kw_string == <<"s", "t", "r", "i", "n", "g">>

MonetaryKeywords == {kw_amount, kw_balance, kw_price, kw_value}
AddressKeywords == {kw_address, kw_location}
DateKeywords == {kw_date, kw_time}
IdKeywords == {kw_id, kw_num, kw_no, kw_code}

\* names of the bronze metadata columns
col_source_file_url == <<"_", "s", "o", "u", "r", "c", "e", "_", "f", "i", "l", "e", "_", "u", "r", "l">>
col_ingestion_timestamp == <<"_", "i", "n", "g", "e", "s", "t", "i", "o", "n", "_", "t", "i", "m", "e", "s", "t", "a", "m", "p">>
col_source_hash == <<"_", "s", "o", "u", "r", "c", "e", "_", "h", "a", "s", "h">>
MetadataColumns == {col_source_file_url, col_ingestion_timestamp, col_source_hash}

\* str(dtype) of the pandas dtypes of the model
dt_int64 == <<"i", "n", "t", "6", "4">>
dt_float64 == <<"f", "l", "o", "a", "t", "6", "4">>
dt_bool == <<"b", "o", "o", "l">>
dt_boolean == <<"b", "o", "o", "l", "e", "a", "n">>
dt_object == <<"o", "b", "j", "e", "c", "t">>
dt_string == <<"s", "t", "r", "i", "n", "g">>
dt_category == <<"c", "a", "t", "e", "g", "o", "r", "y">>
dt_datetime64 == <<"d", "a", "t", "e", "t", "i", "m", "e", "6", "4", "[", "n", "s", "]">>
dt_datetime64_utc == <<"d", "a", "t", "e", "t", "i", "m", "e", "6", "4", "[", "n", "s", ",", " ", "U", "T", "C", "]">>
DTypes == {dt_int64, dt_float64, dt_bool, dt_boolean, dt_object, dt_string, dt_category,
           dt_datetime64, dt_datetime64_utc}

(***************************************************************************)
(* Values of a column.  k is the kind of the Python value: "none" (None,   *)
(* NaN, NaT, NA), "bool" (f is the truth value), "int" (n is the number),  *)
(* "text" (a str of n characters; f: it reads as a date-time), "ts" (a     *)
(* Timestamp at instant n), "url" (the url of index n), "md5" (the hex     *)
(* digest of value n).                                                     *)
(***************************************************************************)
NoneV == [k |-> "none", n |-> 0, f |-> FALSE]
BoolV(b) == [k |-> "bool", n |-> 0, f |-> b]
IntV(x) == [k |-> "int", n |-> x, f |-> FALSE]
TextV(len, isTime) == [k |-> "text", n |-> len, f |-> isTime]
TsV(t) == [k |-> "ts", n |-> t, f |-> FALSE]
UrlV(u) == [k |-> "url", n |-> u, f |-> FALSE]
Md5V(h) == [k |-> "md5", n |-> h, f |-> FALSE]

RECURSIVE Digits(_)
Digits(x) == IF x < 10 THEN 1 ELSE 1 + Digits(x \div 10)

\* len(str(v)) for a value that is not null
StrLen(v) ==
    CASE v.k = "text" -> v.n
      [] v.k = "bool" -> IF v.f THEN 4 ELSE 5
      [] v.k = "int" -> Digits(v.n)
      [] v.k = "ts" -> 19
      [] v.k = "url" -> 100 + Digits(v.n)
      [] v.k = "md5" -> 32
      [] OTHER -> 4

SetMax(S) == CHOOSE x \in S : \A y \in S : y <= x
MinOf(a, b) == IF a < b THEN a ELSE b
MaxOf(a, b) == IF a > b THEN a ELSE b

\* the SQLAlchemy types
DECIMAL(p, sc) == [t |-> "DECIMAL", a |-> p, b |-> sc]
NVARCHAR(len) == [t |-> "NVARCHAR", a |-> len, b |-> 0]
TEXT == [t |-> "TEXT", a |-> 0, b |-> 0]
DATETIME == [t |-> "DATETIME", a |-> 0, b |-> 0]
DATE == [t |-> "DATE", a |-> 0, b |-> 0]
INTEGER == [t |-> "INTEGER", a |-> 0, b |-> 0]
BIGINT == [t |-> "BIGINT", a |-> 0, b |-> 0]
BIT == [t |-> "BIT", a |-> 0, b |-> 0]

\* The length without its lower limit.
suggested_len_no_minimum(max_len) == MinOf((max_len * 12) \div 10, 4000)

\* line 59: min(max(int(max_len * 1.2), 50), 4000).  int() truncates the
\* float product; for the lengths a column can have, the truncated product
\* is (12 * max_len) div 10.
suggested_len(max_len) == MinOf(MaxOf((max_len * 12) \div 10, 50), 4000)

\* line 55: column_data.dropna().astype(str).str.len(), as a set
StrLens(column_data) ==
    {StrLen(column_data[j]) : j \in {m \in 1..Len(column_data) : column_data[m].k # "none"}}

\* line 52-64: the length of a string column; max() of no value is NaN
string_type(column_data) ==
    LET lens == StrLens(column_data) IN
    IF lens = {} \/ SetMax(lens) = 0
    THEN NVARCHAR(500)
    ELSE NVARCHAR(suggested_len(SetMax(lens)))

\* line 41-66: the dispatch on str(dtype).lower()
type_of_dtype(dtype_str, column_data) ==
    IF Contains(dtype_str, kw_int) THEN BIGINT
    ELSE IF Contains(dtype_str, kw_float) THEN DECIMAL(15, 4)
    ELSE IF Contains(dtype_str, kw_bool) THEN BIT
    ELSE IF Contains(dtype_str, kw_datetime) THEN DATETIME
    ELSE IF Contains(dtype_str, kw_object) \/ Contains(dtype_str, kw_string)
         THEN string_type(column_data)
    ELSE NVARCHAR(500)

\* The address rule tried before the monetary rule.
get_sql_data_type_address_first(dtype, column_name, column_data) ==
    LET dtype_str == Lower(dtype)
        name == Lower(column_name)
    IN  IF AnyKeyword(name, AddressKeywords) THEN TEXT
        ELSE IF AnyKeyword(name, MonetaryKeywords) THEN DECIMAL(15, 2)
        ELSE IF AnyKeyword(name, DateKeywords)
             THEN IF Contains(dtype_str, kw_datetime) THEN DATETIME ELSE DATE
        ELSE IF AnyKeyword(name, IdKeywords)
             THEN IF Contains(dtype_str, kw_int) THEN INTEGER ELSE NVARCHAR(50)
        ELSE type_of_dtype(dtype_str, column_data)

\* line 15-66
get_sql_data_type(dtype, column_name, column_data) ==
    LET dtype_str == Lower(dtype)
        name == Lower(column_name)
    IN  IF AnyKeyword(name, MonetaryKeywords) THEN DECIMAL(15, 2)
        ELSE IF AnyKeyword(name, AddressKeywords) THEN TEXT
        ELSE IF AnyKeyword(name, DateKeywords)
             THEN IF Contains(dtype_str, kw_datetime) THEN DATETIME ELSE DATE
        ELSE IF AnyKeyword(name, IdKeywords)
             THEN IF Contains(dtype_str, kw_int) THEN INTEGER ELSE NVARCHAR(50)
        ELSE type_of_dtype(dtype_str, column_data)

\* line 90-101
get_sql_data_type_with_metadata(dtype, column_name, column_data) ==
    IF column_name = col_source_file_url THEN NVARCHAR(1000)
    ELSE IF column_name = col_ingestion_timestamp THEN DATETIME
    ELSE IF column_name = col_source_hash THEN NVARCHAR(32)
    ELSE get_sql_data_type(dtype, column_name, column_data)

(***************************************************************************)
(* SpecInfer: get_sql_data_type_with_metadata on one column.               *)
(***************************************************************************)
n_name == <<"n", "a", "m", "e">>
n_x == <<"x">>
n_Balance == <<"B", "a", "l", "a", "n", "c", "e">>
n_PRICE == <<"P", "R", "I", "C", "E">>
n_us == <<"_">>

NameParts == {kw_amount, n_Balance, n_PRICE, kw_value, kw_address, kw_location,
              kw_date, kw_time, kw_id, kw_num, kw_no, kw_code, n_name, n_x}

\* column names: one part, two parts joined by "_", or a metadata column
InferNames ==
    NameParts
    \cup {a \o n_us \o b : a \in {kw_amount, n_PRICE, n_x}, b \in NameParts}
    \cup {b \o n_us \o kw_value : b \in NameParts}
    \cup MetadataColumns

\* character counts of the strings of a text column
TextLens == {0, 1, 41, 42, 50, 3334, 4000}

TextValues == {NoneV} \cup {TextV(len, FALSE) : len \in TextLens}

SeqsUpTo(S, maxLen) == UNION {[1..m -> S] : m \in 0..maxLen}

\* the value sequences a column of the dtype is given: the values of a
\* column are read by the string branch alone
InferData(dtype) ==
    IF dtype \in {dt_object, dt_string} THEN SeqsUpTo(TextValues, MaxRows) ELSE {<<>>}

InitInfer ==
    /\ MainIdle
    /\ BronzeIdle
    /\ ipc = "call"
    /\ isql = <<>>
    /\ \E name \in InferNames, dtype \in DTypes :
          \E data \in InferData(dtype) :
             icol = [name |-> name, dtype |-> dtype, data |-> data]

\* main, line 326-330: the type of one column is inferred
Infer ==
    /\ ipc = "call"
    /\ isql' = get_sql_data_type_with_metadata(icol.dtype, icol.name, icol.data)
    /\ ipc' = "done"
    /\ UNCHANGED <<icol, mainVars, bronzeVars>>

NextInfer == Infer

SpecInfer == InitInfer /\ [][NextInfer]_vars

IsMonetary(name) == AnyKeyword(Lower(name), MonetaryKeywords)

\* C5: a column whose name contains a monetary keyword (case-insensitively,
\* as a substring) gets DECIMAL(15,2), whatever its dtype and whatever other
\* keyword its name contains.
C5_MonetaryWins ==
    (ipc = "done" /\ IsMonetary(icol.name)) => isql = DECIMAL(15, 2)

\* a boolean column named amount_address, which the address rule and the
\* dtype dispatch would type otherwise
C5_Witness ==
    /\ ipc = "done"
    /\ icol.name = kw_amount \o n_us \o kw_address
    /\ icol.dtype = dt_bool
    /\ isql = DECIMAL(15, 2)

\* a textual column that reaches the dispatch on the dtype
ReachesStringBranch ==
    /\ icol.name \notin MetadataColumns
    /\ ~AnyKeyword(Lower(icol.name),
                   MonetaryKeywords \cup AddressKeywords \cup DateKeywords \cup IdKeywords)
    /\ icol.dtype \in {dt_object, dt_string}

\* the largest string length of the non-null values (0 when there is none)
MaxObserved == IF StrLens(icol.data) = {} THEN 0 ELSE SetMax(StrLens(icol.data))

CeilMargin(m) == (12 * m + 9) \div 10
FloorMargin(m) == (12 * m) \div 10

\* C6 (as claimed): for a textual column with maximum observed length
\* m >= 1, NVARCHAR(L) has 50 <= L <= 4000 and L >= ceil(1.2 m) whenever
\* ceil(1.2 m) lies in [50, 4000].
C6_LengthAtLeastCeil ==
    (ipc = "done" /\ ReachesStringBranch /\ MaxObserved >= 1) =>
        /\ isql.t = "NVARCHAR"
        /\ 50 <= isql.a /\ isql.a <= 4000
        /\ CeilMargin(MaxObserved) \in 50..4000 => isql.a >= CeilMargin(MaxObserved)

\* C6 (amended): the same with the margin rounded down: 50 <= L <= 4000 and
\* L >= floor(1.2 m) whenever floor(1.2 m) lies in [50, 4000], that is
\* L = clamp(floor(1.2 m), 50, 4000).
C6_LengthAtLeastFloor ==
    (ipc = "done" /\ ReachesStringBranch /\ MaxObserved >= 1) =>
        /\ isql.t = "NVARCHAR"
        /\ 50 <= isql.a /\ isql.a <= 4000
        /\ FloorMargin(MaxObserved) \in 50..4000 => isql.a = FloorMargin(MaxObserved)
        /\ FloorMargin(MaxObserved) < 50 => isql.a = 50
        /\ FloorMargin(MaxObserved) > 4000 => isql.a = 4000

\* a column named name whose longest string has 50 characters gets NVARCHAR(60)
C6_Witness ==
    /\ ipc = "done"
    /\ ReachesStringBranch
    /\ MaxObserved = 50
    /\ isql = NVARCHAR(60)

(***************************************************************************)
(* Dataframes.  A dataframe is the sequence of its columns; a column has   *)
(* a name, a dtype (as str(dtype)) and its values, one per row.            *)
(***************************************************************************)
RowsOf(df) == IF df = <<>> THEN 0 ELSE Len(df[1].data)

\* a scalar assigned to a column: the value in every row
Broadcast(v, rows) == [j \in 1..rows |-> v]

\* the string form of a value, df.astype(str), as a code
ValueCode(v) ==
    CASE v.k = "none" -> 1
      [] v.k = "bool" -> IF v.f THEN 2 ELSE 3
      [] v.k = "int" -> 10 + v.n
      [] v.k = "ts" -> 200 + v.n
      [] v.k = "url" -> 400 + v.n
      [] v.k = "text" -> 1000 + 2 * v.n + (IF v.f THEN 1 ELSE 0)
      [] OTHER -> 100000 + v.n

\* line 85: df.astype(str).to_string(index=False): the header with the
\* column names, then the rows, as the sequence of the character codes of
\* the names and of the codes of the values
RECURSIVE HeaderFrom(_, _)
HeaderFrom(df, c) ==
    IF c > Len(df) THEN <<>>
    ELSE [j \in 1..Len(df[c].name) |-> Ord(df[c].name[j])] \o <<0>> \o HeaderFrom(df, c + 1)

RECURSIVE CellsFrom(_, _, _)
CellsFrom(df, r, c) ==
    IF r > RowsOf(df) THEN <<>>
    ELSE IF c > Len(df) THEN CellsFrom(df, r + 1, 1)
    ELSE <<ValueCode(df[c].data[r])>> \o CellsFrom(df, r, c + 1)

to_string(df) == HeaderFrom(df, 1) \o CellsFrom(df, 1, 1)

\* line 88: hashlib.md5(data_string).hexdigest(): a digest of the bytes, here
\* a polynomial digest of the codes
RECURSIVE DigestFrom(_, _, _)
DigestFrom(codes, j, h) ==
    IF j > Len(codes) THEN h
    ELSE DigestFrom(codes, j + 1, (h * 31 + codes[j]) % 65521)

md5(codes) == DigestFrom(codes, 1, 7)

\* line 82-88
generate_source_hash(df) == md5(to_string(df))

\* The hash taken of the dataframe the metadata columns were added to.
add_bronze_metadata_hash_of_augmented(df, source_url, now) ==
    LET rows == RowsOf(df)
        with_url == Append(df, [name |-> col_source_file_url, dtype |-> dt_object,
                                data |-> Broadcast(UrlV(source_url), rows)])
        with_ts == Append(with_url, [name |-> col_ingestion_timestamp,
                                     dtype |-> dt_datetime64_utc,
                                     data |-> Broadcast(TsV(now), rows)])
    IN  Append(with_ts, [name |-> col_source_hash, dtype |-> dt_object,
                         data |-> Broadcast(Md5V(generate_source_hash(with_ts)), rows)])

\* line 71-80: the three metadata columns are appended to a copy of df; the
\* hash is taken of df itself; pd.Timestamp.now('UTC') is timezone-aware
add_bronze_metadata(df, source_url, now) ==
    LET rows == RowsOf(df)
        with_url == Append(df, [name |-> col_source_file_url, dtype |-> dt_object,
                                data |-> Broadcast(UrlV(source_url), rows)])
        with_ts == Append(with_url, [name |-> col_ingestion_timestamp,
                                     dtype |-> dt_datetime64_utc,
                                     data |-> Broadcast(TsV(now), rows)])
    IN  Append(with_ts, [name |-> col_source_hash, dtype |-> dt_object,
                         data |-> Broadcast(Md5V(generate_source_hash(df)), rows)])

\* line 111: df.select_dtypes(include=['bool']): the numpy bool columns and
\* the columns of the nullable boolean dtype; an object column that holds
\* True/False/None is not among them
select_bool(df) == {c \in 1..Len(df) : df[c].dtype \in {dt_bool, dt_boolean}}

\* line 113: astype('int64') raises on a missing value
astype_int64_raises(col) == \E j \in 1..Len(col.data) : col.data[j].k = "none"

astype_int64(col) ==
    [name |-> col.name, dtype |-> dt_int64,
     data |-> [j \in 1..Len(col.data) |-> IntV(IF col.data[j].f THEN 1 ELSE 0)]]

\* line 116: df.select_dtypes(include=['datetime64']): the timezone-naive
\* datetime columns; a timezone-aware column (DatetimeTZDtype) is selected
\* by 'datetimetz' only
select_datetime64(df) == {c \in 1..Len(df) : df[c].dtype = dt_datetime64}

\* df[col].dt.tz is not None
tz_aware(col) == col.dtype = dt_datetime64_utc

\* df[col].dt.tz_localize(None)
tz_localize_none(col) == [col EXCEPT !.dtype = dt_datetime64]

\* line 118-123; where(notna, None) leaves NaT in a datetime column
naive_datetime(col) == IF tz_aware(col) THEN tz_localize_none(col) ELSE col

\* line 130-133: pd.to_datetime(errors='coerce') of a column of str and None
reparse_dates(col) ==
    [name |-> col.name, dtype |-> dt_datetime64,
     data |-> [j \in 1..Len(col.data) |->
                 IF col.data[j].k = "text" /\ col.data[j].f
                 THEN TsV(col.data[j].n) ELSE NoneV]]

\* line 126-128
is_object_date(col) ==
    /\ AnyKeyword(Lower(col.name), DateKeywords)
    /\ col.dtype = dt_object

\* line 110-113
convert_bools(df) ==
    [c \in 1..Len(df) |-> IF c \in select_bool(df) THEN astype_int64(df[c]) ELSE df[c]]

\* line 115-123
convert_datetimes(df) ==
    [c \in 1..Len(df) |-> IF c \in select_datetime64(df) THEN naive_datetime(df[c]) ELSE df[c]]

\* line 125-135
convert_object_dates(df) ==
    [c \in 1..Len(df) |-> IF is_object_date(df[c]) THEN reparse_dates(df[c]) ELSE df[c]]

\* preprocess_dataframe raises when astype('int64') does
preprocess_raises(df) == \E c \in select_bool(df) : astype_int64_raises(df[c])

\* line 106-137
preprocess_dataframe(df) == convert_object_dates(convert_datetimes(convert_bools(df)))

\* main, line 324-330
type_plan(df) ==
    [c \in 1..Len(df) |->
        [column |-> df[c].name,
         type |-> get_sql_data_type_with_metadata(df[c].dtype, df[c].name, df[c].data)]]

(***************************************************************************)
(* SpecBronze: the load loop of main (line 306-352) on two downloaded      *)
(* datasets with concrete dataframes.                                      *)
(***************************************************************************)
n_flag == <<"f", "l", "a", "g">>
n_open_date == <<"o", "p", "e", "n", "_", "d", "a", "t", "e">>

ColumnsOf(names, dtype, values) ==
    {[name |-> nm, dtype |-> dtype, data |-> d] : nm \in names, d \in [1..NumRows -> values]}

HasNull(col) == \E j \in 1..Len(col.data) : col.data[j].k = "none"

\* the columns a decoded parquet file is given: numpy bool, nullable boolean
\* (fastparquet), object with True/False/None (pyarrow), object with str
\* and None, int64, datetime64[ns] and datetime64[ns, UTC]
SourceColumns ==
    ColumnsOf({n_flag}, dt_bool, {BoolV(TRUE), BoolV(FALSE)})
    \cup ColumnsOf({n_flag}, dt_boolean, {BoolV(TRUE), BoolV(FALSE), NoneV})
    \cup {col \in ColumnsOf({n_flag}, dt_object, {BoolV(TRUE), BoolV(FALSE), NoneV}) :
             HasNull(col)}
    \cup ColumnsOf({n_name, n_open_date}, dt_object, {TextV(5, FALSE), TextV(10, TRUE), NoneV})
    \cup ColumnsOf({kw_id}, dt_int64, {IntV(7)})
    \cup ColumnsOf({n_open_date}, dt_datetime64, {TsV(1), NoneV})
    \cup ColumnsOf({n_open_date}, dt_datetime64_utc, {TsV(1), NoneV})

DataFrames == {<<col>> : col \in SourceColumns}

InitBronze ==
    /\ pc = "load" /\ i = 0 /\ failed_downloads = <<>>
    /\ fetchLog = <<>> /\ attempt = 0 /\ adapterRetries = 0 /\ getCalls = 0
    /\ httpRequests = 0 /\ sleeps = <<>> /\ seen = {} /\ netErrors = 0
    /\ dwrCalls = 0 /\ decodeTried = <<>> /\ reqAtDecode = 0 /\ fetchOk = FALSE
    /\ setupOk = "ok" /\ engineOk = "ok" /\ k = 1 /\ successful_imports = 0
    /\ failed_imports = <<>> /\ loadLog = <<>> /\ exitCode = -1 /\ summary = FALSE
    /\ \E df1 \in DataFrames, df2 \in DataFrames :
          datasets = <<[df |-> df1, url |-> 1], [df |-> df2, url |-> 2]>>
    /\ tpc = "top" /\ clock = 1
    /\ df_with_metadata = <<>> /\ df_processed = <<>> /\ dtype_mapping = <<>>
    /\ handed = <<>> /\ tdone = <<>>
    /\ InferIdle

bronzeUnchanged == <<i, datasets, failed_downloads, fetchLog, fetchVars, setupOk, engineOk,
                     loadLog, inferVars>>

\* line 316: STEP 1; the clock has moved on by the next call
AddMetadata ==
    /\ pc = "load" /\ tpc = "top"
    /\ k <= Len(datasets)
    /\ df_with_metadata' = add_bronze_metadata(datasets[k].df, datasets[k].url, clock)
    /\ tdone' = Append(tdone, [df |-> datasets[k].df, url |-> datasets[k].url,
                               now |-> clock, out |-> df_with_metadata'])
    /\ clock' = clock + 1
    /\ df_processed' = <<>>
    /\ dtype_mapping' = <<>>
    /\ tpc' = "meta"
    /\ UNCHANGED <<pc, k, successful_imports, failed_imports, exitCode, summary, handed>>
    /\ UNCHANGED bronzeUnchanged

\* line 320: STEP 2; an exception goes to the except clause of line 349
Preprocess ==
    /\ pc = "load" /\ tpc = "meta"
    /\ IF preprocess_raises(df_with_metadata)
       THEN /\ failed_imports' = Append(failed_imports, datasets[k].url)
            /\ k' = k + 1
            /\ tpc' = "top"
            /\ UNCHANGED df_processed
       ELSE /\ df_processed' = preprocess_dataframe(df_with_metadata)
            /\ tpc' = "pre"
            /\ UNCHANGED <<failed_imports, k>>
    /\ UNCHANGED <<pc, successful_imports, exitCode, summary, clock, df_with_metadata,
                   dtype_mapping, handed, tdone>>
    /\ UNCHANGED bronzeUnchanged

\* line 324-330: STEP 3
TypePlan ==
    /\ pc = "load" /\ tpc = "pre"
    /\ dtype_mapping' = type_plan(df_processed)
    /\ tpc' = "plan"
    /\ UNCHANGED <<pc, k, successful_imports, failed_imports, exitCode, summary, clock,
                   df_with_metadata, df_processed, handed, tdone>>
    /\ UNCHANGED bronzeUnchanged

\* line 333-352: STEP 4; to_sql is handed df_processed and dtype_mapping and
\* returns or raises
ToSql ==
    /\ pc = "load" /\ tpc = "plan"
    /\ handed' = [df |-> df_processed, dtype |-> dtype_mapping]
    /\ \E ok \in BOOLEAN :
          IF ok
          THEN /\ successful_imports' = successful_imports + 1
               /\ UNCHANGED failed_imports
          ELSE /\ failed_imports' = Append(failed_imports, datasets[k].url)
               /\ UNCHANGED successful_imports
    /\ k' = k + 1
    /\ tpc' = "top"
    /\ UNCHANGED <<pc, exitCode, summary, clock, df_with_metadata, df_processed,
                   dtype_mapping, tdone>>
    /\ UNCHANGED bronzeUnchanged

\* line 354-380
BronzeSummary ==
    /\ pc = "load" /\ tpc = "top"
    /\ k > Len(datasets)
    /\ summary' = TRUE
    /\ exitCode' = 0
    /\ pc' = "done"
    /\ UNCHANGED <<k, successful_imports, failed_imports, bronzeVars>>
    /\ UNCHANGED bronzeUnchanged

NextBronze ==
    \/ AddMetadata
    \/ Preprocess
    \/ TypePlan
    \/ ToSql
    \/ BronzeSummary

SpecBronze == InitBronze /\ [][NextBronze]_vars

\* a column holds a true/false value
HoldsBoolean(col) == \E j \in 1..Len(col.data) : col.data[j].k = "bool"

\* C7: no boolean column reaches the Loader: every column holding
\* true/false values, also one holding nulls besides, has been turned into
\* 1/0/absent integers, and the type plan selects no BIT.
C7_NoBooleanReachesLoader ==
    handed # <<>> =>
        /\ \A c \in 1..Len(handed.df) :
              /\ ~HoldsBoolean(handed.df[c])
              /\ handed.df[c].dtype \notin {dt_bool, dt_boolean}
        /\ \A c \in 1..Len(handed.dtype) : handed.dtype[c].type # BIT

\* the value of the _source_hash column of an augmented dataframe, per row
HashColumn(out) == out[Len(out)].data

\* C8: the hash of _source_hash depends on the data of the dataset alone:
\* two calls of add_bronze_metadata on identical data, with different urls
\* and at different times, write the same hash in every row.
C8_HashOfDataOnly ==
    \A a \in 1..Len(tdone), b \in 1..Len(tdone) :
        tdone[a].df = tdone[b].df =>
            \A r \in 1..NumRows, q \in 1..NumRows :
                HashColumn(tdone[a].out)[r] = HashColumn(tdone[b].out)[q]

\* two datasets with identical data, different urls and ingestion times
C8_Witness ==
    /\ Len(tdone) = 2
    /\ tdone[1].df = tdone[2].df
    /\ tdone[1].url # tdone[2].url
    /\ tdone[1].now # tdone[2].now
    /\ tdone[1].out[Len(tdone[1].out)].name = col_source_hash

\* C9: every timestamp column of the dataset handed to the Loader is
\* timezone-naive, the _ingestion_timestamp column included.
C9_TimestampsNaive ==
    handed # <<>> => \A c \in 1..Len(handed.df) : ~tz_aware(handed.df[c])

====
